---- MODULE Spec2Model ----
(***************************************************************************)
(* Model of owfmodules.avrisp.write_fuses (WriteFuses.run / process /      *)
(* write_fuses / write_lockbits): one ISP session that enables memory      *)
(* access on an AVR target and writes its fuse bytes and lock bits over    *)
(* an SPI bus and a GPIO reset line.                                       *)
(*                                                                         *)
(* Every call on the SPI interface, on the reset GPIO and every            *)
(* time.sleep is one step; `calls` records them in program order, each     *)
(* with the source line that issues it.  A call on the SPI interface or    *)
(* on the GPIO may raise (the Octowire library reports a failed command    *)
(* with an exception); time.sleep does not.                                *)
(***************************************************************************)
EXTENDS Integers, Sequences, FiniteSets, TLC

VARIABLES
    pc,         \* position of run()/process() in the source
    grp,        \* fuse group whose block of write_fuses is executing
    connected,  \* self.owf_serial is set by self.connect()
    options,    \* self.options[...]["Value"] of the four optional values
    baudrate,   \* self.options["spi_baudrate"]["Value"]
    device,     \* what get_device_id returned
    calls,      \* the SPI / GPIO / sleep calls issued so far, in order
    logs,       \* what self.logger.handle received, in order
    error       \* the exception that ended process(), "none" if none

vars == <<pc, grp, connected, options, baudrate, device, calls, logs, error>>

----------------------------------------------------------------------------
(* Bounds of the model *)

\* longest bit-field list the device descriptor gives for one group
MaxFields == 1

----------------------------------------------------------------------------
(* Constants of the program *)

ByteMax == 255
\* time.sleep(0.5) and time.sleep(0.1), in milliseconds
EnableDelay == 500
WriteDelay == 100

enable_mem_access_cmd == <<172, 83, 0, 0>>     \* b'\xac\x53\x00\x00'
write_low_fuse        == <<172, 160, 0>>       \* b'\xAC\xA0\x00'
write_high_fuse       == <<172, 168, 0>>       \* b'\xAC\xA8\x00'
write_extended_fuse   == <<172, 164, 0>>       \* b'\xAC\xA4\x00'
write_lockbits_cmd    == <<172, 224, 0>>       \* b'\xAC\xE0\x00'

\* the option holding each group's value, in the order process() handles them
FuseGroups == {"low_fuse", "high_fuse", "extended_fuse"}
Groups     == FuseGroups \cup {"lock_bits"}

\* key of the device descriptor holding the group's bit-field list
DeviceKey(g) ==
    CASE g = "low_fuse"      -> "fuse_low"
      [] g = "high_fuse"     -> "fuse_high"
      [] g = "extended_fuse" -> "fuse_extended"
      [] g = "lock_bits"     -> "lock_bits"

\* 3-byte write prefix of the group
Prefix(g) ==
    CASE g = "low_fuse"      -> write_low_fuse
      [] g = "high_fuse"     -> write_high_fuse
      [] g = "extended_fuse" -> write_extended_fuse
      [] g = "lock_bits"     -> write_lockbits_cmd

\* source lines of the group's calls: reset low, transmit, reset high, sleep
AssertLine(g) ==
    CASE g = "low_fuse" -> 63 [] g = "high_fuse" -> 77 [] g = "extended_fuse" -> 92
TransmitLine(g) ==
    CASE g = "low_fuse" -> 65 [] g = "high_fuse" -> 79 [] g = "extended_fuse" -> 93
      [] g = "lock_bits" -> 107
ReleaseLine(g) ==
    CASE g = "low_fuse" -> 69 [] g = "high_fuse" -> 84 [] g = "extended_fuse" -> 97
SleepLine(g) ==
    CASE g = "low_fuse" -> 70 [] g = "high_fuse" -> 85 [] g = "extended_fuse" -> 98

\* lines of write_fuses / write_lockbits that issue a call for the group
GroupLines(g) ==
    IF g = "lock_bits" THEN {TransmitLine(g)}
    ELSE {AssertLine(g), TransmitLine(g), ReleaseLine(g), SleepLine(g)}

\* the block of write_fuses that follows the group's block
NextGroup_m(g) ==
    CASE g = "low_fuse"      -> "extended_fuse"
      [] g = "high_fuse"     -> "extended_fuse"
      [] g = "extended_fuse" -> "none"
NextGroup_swapped(g) ==
    CASE g = "low_fuse"      -> "extended_fuse"
      [] g = "extended_fuse" -> "high_fuse"
      [] g = "high_fuse"     -> "none"
NextGroup(g) ==
    CASE g = "low_fuse"      -> "high_fuse"
      [] g = "high_fuse"     -> "extended_fuse"
      [] g = "extended_fuse" -> "none"

----------------------------------------------------------------------------
(* Inputs *)

\* An optional value is "" (here <<>>) when not supplied, else <<v>> with v
\* the integer the "hex" option parsing produced; nothing bounds v to a byte.
Absent == <<>>
Values == {0, 226, -1, ByteMax + 1}
OptionValues == {Absent} \cup {<<v>> : v \in Values}

Baudrates == {1000000, 50000000}

\* get_device_id returns None, or a descriptor with one bit-field list per
\* group; only the lists' lengths are read here.  The descriptors drawn are
\* those where the groups of a set S have n fields each and the others none.
NoDevice == [found |-> FALSE, fuse_low |-> 0, fuse_high |-> 0,
             fuse_extended |-> 0, lock_bits |-> 0]
Descriptor(S, n) ==
    [found         |-> TRUE,
     fuse_low      |-> IF "low_fuse" \in S THEN n ELSE 0,
     fuse_high     |-> IF "high_fuse" \in S THEN n ELSE 0,
     fuse_extended |-> IF "extended_fuse" \in S THEN n ELSE 0,
     lock_bits     |-> IF "lock_bits" \in S THEN n ELSE 0]
Devices ==
    {NoDevice} \cup {Descriptor(S, n) : S \in SUBSET Groups, n \in 1..MaxFields}

----------------------------------------------------------------------------
(* Pure parts of the code *)

\* process: `if device is not None`
DeviceFound_m(d) == TRUE
DeviceFound(d) == d.found

\* `len(device[key]) > 0`
Supported_m(d, g) == TRUE
Supported(d, g) == d[DeviceKey(g)] > 0

\* `self.options[g]["Value"] != ""`
ValuePresent_m(opt) == TRUE
ValuePresent(opt) == opt # Absent

\* bytes([value]): the exception it raises, "none" when it returns
BytesError(opt) ==
    IF opt = Absent THEN "TypeError"
    ELSE IF opt[1] < 0 \/ opt[1] > ByteMax THEN "ValueError"
    ELSE "none"

\* prefix + bytes([value])
WriteCommand_m(prefix, opt) == <<opt[1]>> \o prefix
WriteCommand(prefix, opt) == prefix \o <<opt[1]>>

Event(op, arg, line, ok) == [op |-> op, arg |-> arg, line |-> line, ok |-> ok]
LogEntry(level, msg, g)  == [level |-> level, msg |-> msg, group |-> g]

----------------------------------------------------------------------------
(* Steps *)

Init ==
    /\ pc = "run"
    /\ grp = "none"
    /\ connected \in BOOLEAN
    /\ options \in [Groups -> OptionValues]
    /\ baudrate \in Baudrates
    /\ device = NoDevice
    /\ calls = <<>>
    /\ logs = <<>>
    /\ error = "none"

\* an exception leaves process(); run() logs it at ERROR level and returns
Raise(kind) ==
    /\ pc' = "done"
    /\ error' = kind
    /\ logs' = Append(logs, LogEntry("ERROR", kind, "none"))

\* a call on the SPI interface or the GPIO: it returns, or it raises
Call_swallow(op, arg, line, next, said) ==
    \E ok \in BOOLEAN :
        /\ calls' = Append(calls, Event(op, arg, line, ok))
        /\ pc' = next /\ error' = error /\ logs' = logs \o said
Call_restore(op, arg, line, next, said) ==
    \E ok \in BOOLEAN :
        IF ok
        THEN /\ calls' = Append(calls, Event(op, arg, line, ok))
             /\ pc' = next /\ error' = error /\ logs' = logs \o said
        ELSE /\ calls' = Append(Append(calls, Event(op, arg, line, ok)),
                                Event("status", <<1>>, 153, TRUE))
             /\ Raise("Exception")
Call(op, arg, line, next, said) ==
    \E ok \in BOOLEAN :
        /\ calls' = Append(calls, Event(op, arg, line, ok))
        /\ IF ok
           THEN pc' = next /\ error' = error /\ logs' = logs \o said
           ELSE Raise("Exception")

\* time.sleep
Sleep(ms, line, next) ==
    /\ calls' = Append(calls, Event("sleep", <<ms>>, line, TRUE))
    /\ pc' = next
    /\ UNCHANGED <<logs, error>>

\* run: self.connect(); if not self.owf_serial: return
run ==
    /\ pc = "run"
    /\ pc' = IF connected THEN "get_device_id" ELSE "done"
    /\ UNCHANGED <<grp, connected, options, baudrate, device, calls, logs, error>>

\* process: device = self.get_device_id(...); if device is not None
get_device_id ==
    /\ pc = "get_device_id"
    /\ \E d \in Devices :
        /\ device' = d
        /\ pc' = IF DeviceFound(d) THEN "direction" ELSE "done"
    /\ UNCHANGED <<grp, connected, options, baudrate, calls, logs, error>>

\* reset.direction = GPIO.OUTPUT
process_direction ==
    /\ pc = "direction"
    /\ Call("direction", <<>>, 124, "idle_high", <<>>)
    /\ UNCHANGED <<grp, connected, options, baudrate, device>>

\* reset.status = 1 (reset is active-low)
process_idle_high ==
    /\ pc = "idle_high"
    /\ Call("status", <<1>>, 127, "configure", <<>>)
    /\ UNCHANGED <<grp, connected, options, baudrate, device>>

\* spi_interface.configure(baudrate=spi_baudrate); "Enabling Memory Access..."
process_configure ==
    /\ pc = "configure"
    /\ Call("configure", <<baudrate>>, 130, "reset_low",
            <<LogEntry("INFO", "Enabling Memory Access", "none")>>)
    /\ UNCHANGED <<grp, connected, options, baudrate, device>>

\* reset.status = 0
process_reset_low_m ==
    /\ pc = "reset_low"
    /\ pc' = "enable"
    /\ UNCHANGED <<grp, connected, options, baudrate, device, calls, logs, error>>
process_reset_low ==
    /\ pc = "reset_low"
    /\ Call("status", <<0>>, 134, "enable", <<>>)
    /\ UNCHANGED <<grp, connected, options, baudrate, device>>

\* spi_interface.transmit(enable_mem_access_cmd)
process_enable ==
    /\ pc = "enable"
    /\ Call("transmit", enable_mem_access_cmd, 137, "enable_sleep", <<>>)
    /\ UNCHANGED <<grp, connected, options, baudrate, device>>

\* time.sleep(0.5)
process_enable_sleep_m ==
    /\ pc = "enable_sleep"
    /\ pc' = "reset_high"
    /\ UNCHANGED <<grp, connected, options, baudrate, device, calls, logs, error>>
process_enable_sleep ==
    /\ pc = "enable_sleep"
    /\ Sleep(EnableDelay, 138, "reset_high")
    /\ UNCHANGED <<grp, connected, options, baudrate, device>>

\* reset.status = 1, then self.write_fuses(...) is entered
process_reset_high_m ==
    /\ pc = "reset_high"
    /\ pc' = "fuse_begin" /\ grp' = "low_fuse"
    /\ UNCHANGED <<connected, options, baudrate, device, calls, logs, error>>
process_reset_high ==
    /\ pc = "reset_high"
    /\ \E ok \in BOOLEAN :
        /\ calls' = Append(calls, Event("status", <<1>>, 141, ok))
        /\ IF ok
           THEN pc' = "fuse_begin" /\ grp' = "low_fuse"
                /\ UNCHANGED <<logs, error>>
           ELSE Raise("Exception") /\ grp' = grp
    /\ UNCHANGED <<connected, options, baudrate, device>>

\* where write_fuses goes after the block of group g
AfterGroup(g) ==
    IF NextGroup(g) = "none"
    THEN pc' = "lock_assert" /\ grp' = "none"
    ELSE pc' = "fuse_begin" /\ grp' = NextGroup(g)

\* write_fuses, the two `if`s of a block and, when both hold, reset.status = 0
write_fuses_begin(g) ==
    /\ pc = "fuse_begin" /\ grp = g
    /\ IF Supported(device, g)
       THEN IF ValuePresent(options[g])
            THEN /\ Call("status", <<0>>, AssertLine(g), "fuse_transmit", <<>>)
                 /\ grp' = g
            ELSE /\ logs' = Append(logs, LogEntry("INFO", "left unchanged", g))
                 /\ AfterGroup(g)
                 /\ UNCHANGED <<calls, error>>
       ELSE /\ AfterGroup(g)
            /\ UNCHANGED <<calls, logs, error>>
    /\ UNCHANGED <<connected, options, baudrate, device>>

\* spi_interface.transmit(prefix + bytes([value])); "... value written"
write_fuses_transmit(g) ==
    /\ pc = "fuse_transmit" /\ grp = g
    /\ IF BytesError(options[g]) # "none"
       THEN Raise(BytesError(options[g])) /\ UNCHANGED calls
       ELSE Call("transmit", WriteCommand(Prefix(g), options[g]), TransmitLine(g),
                 "fuse_release", <<LogEntry("RESULT", "written", g)>>)
    /\ UNCHANGED <<grp, connected, options, baudrate, device>>

\* reset.status = 1
write_fuses_release_m(g) ==
    /\ pc = "fuse_release" /\ grp = g
    /\ pc' = "fuse_sleep"
    /\ UNCHANGED <<grp, connected, options, baudrate, device, calls, logs, error>>
write_fuses_release(g) ==
    /\ pc = "fuse_release" /\ grp = g
    /\ Call("status", <<1>>, ReleaseLine(g), "fuse_sleep", <<>>)
    /\ UNCHANGED <<grp, connected, options, baudrate, device>>

\* time.sleep(0.1), then the next block
write_fuses_sleep(g) ==
    /\ pc = "fuse_sleep" /\ grp = g
    /\ calls' = Append(calls, Event("sleep", <<WriteDelay>>, SleepLine(g), TRUE))
    /\ AfterGroup(g)
    /\ UNCHANGED <<connected, options, baudrate, device, logs, error>>

\* process: reset.status = 0 before self.write_lockbits(...)
process_lock_assert_m ==
    /\ pc = "lock_assert"
    /\ pc' = "write_lockbits"
    /\ UNCHANGED <<grp, connected, options, baudrate, device, calls, logs, error>>
process_lock_assert ==
    /\ pc = "lock_assert"
    /\ Call("status", <<0>>, 147, "write_lockbits", <<>>)
    /\ UNCHANGED <<grp, connected, options, baudrate, device>>

\* write_lockbits
write_lockbits ==
    /\ pc = "write_lockbits"
    /\ IF Supported(device, "lock_bits")
       THEN IF ValuePresent(options["lock_bits"])
            THEN IF BytesError(options["lock_bits"]) # "none"
                 THEN Raise(BytesError(options["lock_bits"])) /\ UNCHANGED calls
                 ELSE Call("transmit",
                           WriteCommand(Prefix("lock_bits"), options["lock_bits"]),
                           TransmitLine("lock_bits"), "exit",
                           <<LogEntry("RESULT", "written", "lock_bits")>>)
            ELSE /\ logs' = Append(logs, LogEntry("INFO", "left unchanged", "lock_bits"))
                 /\ pc' = "exit"
                 /\ UNCHANGED <<calls, error>>
       ELSE /\ pc' = "exit"
            /\ UNCHANGED <<calls, logs, error>>
    /\ UNCHANGED <<grp, connected, options, baudrate, device>>

\* process: reset.status = 1, the last statement
process_exit ==
    /\ pc = "exit"
    /\ Call("status", <<1>>, 153, "done", <<>>)
    /\ UNCHANGED <<grp, connected, options, baudrate, device>>

Next ==
    \/ run
    \/ get_device_id
    \/ process_direction
    \/ process_idle_high
    \/ process_configure
    \/ process_reset_low
    \/ process_enable
    \/ process_enable_sleep
    \/ process_reset_high
    \/ \E g \in FuseGroups : write_fuses_begin(g)
    \/ \E g \in FuseGroups : write_fuses_transmit(g)
    \/ \E g \in FuseGroups : write_fuses_release(g)
    \/ \E g \in FuseGroups : write_fuses_sleep(g)
    \/ process_lock_assert
    \/ write_lockbits
    \/ process_exit

Spec == Init /\ [][Next]_vars

----------------------------------------------------------------------------
(* Vocabulary of the properties *)

\* the write prefixes as the command table of the protocol gives them
TablePrefix(g) ==
    CASE g = "low_fuse"      -> <<172, 160, 0>>
      [] g = "high_fuse"     -> <<172, 168, 0>>
      [] g = "extended_fuse" -> <<172, 164, 0>>
      [] g = "lock_bits"     -> <<172, 224, 0>>
TableEnable == <<172, 83, 0, 0>>

Is(e, op, arg)   == e.op = op /\ e.arg = arg
IsLevel(e, lvl)  == Is(e, "status", <<lvl>>)
IsWriteOf(e, g)  == e.op = "transmit" /\ Len(e.arg) = 4
                    /\ SubSeq(e.arg, 1, 3) = TablePrefix(g)
IsWrite(e)       == \E g \in Groups : IsWriteOf(e, g)
IsByte(v)        == v >= 0 /\ v <= 255

\* the session ended by process() returning, not by an exception
Completed == pc = "done" /\ error = "none" /\ device.found

\* the calls issued by the group's own code in write_fuses / write_lockbits
CallsOf(g) == {i \in DOMAIN calls : calls[i].line \in GroupLines(g)}
WritesOf(g) == {i \in DOMAIN calls : IsWriteOf(calls[i], g)}
\* the device lists the group and a value was supplied for it
Requested(g) == device.found /\ device[DeviceKey(g)] > 0 /\ options[g] # <<>>

----------------------------------------------------------------------------
(* Properties *)

\* C1: when device identification returns none, the session issues no call
\* at all on the reset line or on the SPI interface, whatever values were
\* supplied.
C1_NoDeviceNoCalls ==
    ~device.found => calls = <<>>

C1_Witness ==
    /\ pc = "done" /\ connected /\ ~device.found
    /\ \A g \in Groups : options[g] # <<>>

\* C2: every byte sequence transmitted is the enable command AC 53 00 00, or
\* the 3-byte write prefix of a group (AC A0 00 low, AC A8 00 high, AC A4 00
\* extended, AC E0 00 lock bits) followed by exactly one byte, the value
\* supplied for that same group.
C2_CommandBytes ==
    \A i \in DOMAIN calls :
        calls[i].op = "transmit" =>
            \/ calls[i].arg = TableEnable /\ calls[i].line = 137
            \/ \E g \in Groups :
                /\ options[g] # <<>>
                /\ IsByte(options[g][1])
                /\ calls[i].arg = TablePrefix(g) \o <<options[g][1]>>
                /\ calls[i].line = TransmitLine(g)

C2_Witness ==
    /\ Completed
    /\ \A g \in Groups :
        /\ options[g] # <<>>
        /\ \E i \in DOMAIN calls :
            Is(calls[i], "transmit", TablePrefix(g) \o <<options[g][1]>>)

\* C3: a fuse group (low, high, extended) whose value is absent gets no call
\* from its block of write_fuses: no reset-line write, no transmit, no
\* delay, whether or not the device lists the group.
C3_AbsentValueNoCalls ==
    \A g \in FuseGroups :
        options[g] = <<>> =>
            /\ CallsOf(g) = {}
            /\ WritesOf(g) = {}

C3_Witness ==
    /\ Completed
    /\ options["low_fuse"] = <<>> /\ device.fuse_low > 0
    /\ options["high_fuse"] = <<>> /\ device.fuse_high = 0
    /\ WritesOf("extended_fuse") # {}

WriteRun(g) ==
    << [op |-> "status",   arg |-> <<0>>],
       [op |-> "transmit", arg |-> TablePrefix(g) \o <<options[g][1]>>],
       [op |-> "status",   arg |-> <<1>>],
       [op |-> "sleep",    arg |-> <<100>>] >>

C5_WriteSequence ==
    \A g \in FuseGroups :
        LET S == CallsOf(g)
            n == Cardinality(S)
        IN  /\ S # {} =>
                \E i \in DOMAIN calls :
                    /\ S = i .. (i + n - 1)
                    /\ n <= 4
                    /\ \A k \in 1 .. n :
                        Is(calls[i + k - 1], WriteRun(g)[k].op, WriteRun(g)[k].arg)
                    /\ (i + n - 1 < Len(calls) \/ Completed) => n = 4
            /\ (Completed /\ Requested(g)) => n = 4

C5_Witness ==
    /\ Completed
    /\ \A g \in FuseGroups : Cardinality(CallsOf(g)) = 4
    /\ Cardinality({i \in DOMAIN calls : IsLevel(calls[i], 0)}) = 5

\* C6: no group is written twice; a write transmit for a group occurs only
\* if the device lists the group and a value is present, and in a session
\* that completes it occurs for every such group.
C6_OneWritePerGroup ==
    \A g \in Groups :
        /\ Cardinality(WritesOf(g)) <= 1
        /\ WritesOf(g) # {} => Requested(g)
        /\ (Completed /\ Requested(g)) => Cardinality(WritesOf(g)) = 1

\* {Low, High} listed, Low = 0xE2, High absent: one write, AC A0 00 E2
C6_Witness ==
    /\ Completed
    /\ device.fuse_low > 0 /\ device.fuse_high > 0
    /\ device.fuse_extended = 0 /\ device.lock_bits = 0
    /\ options["low_fuse"] = <<226>> /\ options["high_fuse"] = <<>>
    /\ {i \in DOMAIN calls : IsWrite(calls[i])} = WritesOf("low_fuse")
    /\ \E i \in DOMAIN calls : Is(calls[i], "transmit", <<172, 160, 0, 226>>)
    /\ WritesOf("high_fuse") = {}

\* C7: for an identified device the calls begin, in this order, with: reset
\* line set to output, reset driven to 1, reset driven to 0, transmit of
\* AC 53 00 00, delay of 0.5; the SPI bus is configured with the caller's
\* baud rate before that transmit, and every write transmit comes after the
\* 0.5 delay.
EnterRun ==
    << [op |-> "direction", arg |-> <<>>],
       [op |-> "status",    arg |-> <<1>>],
       [op |-> "status",    arg |-> <<0>>],
       [op |-> "transmit",  arg |-> TableEnable],
       [op |-> "sleep",     arg |-> <<500>>] >>

NotConfigure(e) == e.op # "configure"

C7_EnterProgrammingMode ==
    LET rest == SelectSeq(calls, NotConfigure)
    IN  /\ \A k \in 1 .. Len(rest) :
            k <= 5 => Is(rest[k], EnterRun[k].op, EnterRun[k].arg)
        /\ \A i \in DOMAIN calls :
            Is(calls[i], "transmit", TableEnable) =>
                \E j \in 1 .. (i - 1) :
                    Is(calls[j], "configure", <<baudrate>>) /\ calls[j].ok
        /\ \A i \in DOMAIN calls :
            IsWrite(calls[i]) =>
                \E j \in 1 .. (i - 1) : Is(calls[j], "sleep", <<500>>)

C7_Witness ==
    /\ Completed
    /\ baudrate = 50000000
    /\ \E i \in DOMAIN calls : IsWrite(calls[i])

\* C8: when the lock bits are listed and a value is present, a session that
\* completes ends with: reset driven to 0, transmit of AC E0 00 + value,
\* reset driven to 1; every call of a fuse group's write comes before them.
\* The lock-bit transmit always directly follows a drive of reset to 0.
C8_LockBitsLast ==
    LET n == Len(calls)
    IN  /\ (Completed /\ Requested("lock_bits")) =>
            /\ n >= 3
            /\ IsLevel(calls[n - 2], 0)
            /\ Is(calls[n - 1], "transmit",
                  TablePrefix("lock_bits") \o <<options["lock_bits"][1]>>)
            /\ IsLevel(calls[n], 1)
            /\ \A g \in FuseGroups : \A i \in CallsOf(g) : i < n - 2
        /\ \A i \in WritesOf("lock_bits") :
            /\ i > 1
            /\ IsLevel(calls[i - 1], 0) /\ calls[i - 1].ok
            /\ \A g \in FuseGroups : \A j \in CallsOf(g) : j < i

C8_Witness ==
    /\ Completed
    /\ WritesOf("lock_bits") # {}
    /\ WritesOf("low_fuse") # {}
    /\ WritesOf("extended_fuse") # {}

\* C9 as stated: after the enable command and its 0.5 delay, the first drive
\* of reset to 1 is a write's own release step or the final release.
C9_ResetHeldLow ==
    \A j \in DOMAIN calls :
        Is(calls[j], "sleep", <<500>>) =>
            \A i \in (j + 1) .. Len(calls) :
                (/\ IsLevel(calls[i], 1)
                 /\ \A k \in (j + 1) .. (i - 1) : ~IsLevel(calls[k], 1))
                => calls[i].line \in {69, 84, 97, 153}

\* C9 amended: the call right after the 0.5 delay is process() driving reset
\* to 1 (line 141), before any write; every later drive to 1 is a fuse
\* group's own release step or the final release of process().
C9_ReleasedAfterEnable ==
    \A j \in DOMAIN calls :
        Is(calls[j], "sleep", <<500>>) =>
            /\ j < Len(calls) =>
                IsLevel(calls[j + 1], 1) /\ calls[j + 1].line = 141
            /\ \A i \in (j + 2) .. Len(calls) :
                IsLevel(calls[i], 1) => calls[i].line \in {69, 84, 97, 153}
            /\ \A i \in 1 .. j : ~IsWrite(calls[i])

C9_Witness ==
    /\ Completed
    /\ Len(calls) >= 12
    /\ IsLevel(calls[7], 1) /\ calls[7].line = 141
    /\ \E i \in DOMAIN calls : calls[i].line = 69
    /\ calls[Len(calls)].line = 153

\* C10 as stated: when a value outside 0..255 is supplied for a group (here
\* even only: for a group the device lists), no transmit is issued in the
\* session.
C10_RejectedBeforeTransmit ==
    (\E g \in Groups : Requested(g) /\ ~IsByte(options[g][1])) =>
        \A i \in DOMAIN calls : calls[i].op # "transmit"

\* the levels written to the reset line among the first n calls, and the
\* last of them (-1 when none was written)
StatusCalls(n) == {j \in 1 .. n : calls[j].op = "status"}
LastLevel(n) ==
    IF StatusCalls(n) = {} THEN -1
    ELSE LET j == CHOOSE j \in StatusCalls(n) : \A k \in StatusCalls(n) : k <= j
         IN  calls[j].arg[1]
IsStatus(e) == e.op = "status"
Levels == SelectSeq(calls, IsStatus)
NoCallFailed == \A i \in DOMAIN calls : calls[i].ok
LastLog == logs[Len(logs)]

\* C11: when a call on the SPI interface or on the reset line fails, it is
\* the last call of the session (nothing is issued after it, nothing is
\* retried) and the exception reaches run(), the caller of process(), which
\* records it at ERROR level.
C11_FailureAborts ==
    \A i \in DOMAIN calls :
        ~calls[i].ok =>
            /\ i = Len(calls)
            /\ pc = "done"
            /\ error = "Exception"
            /\ logs # <<>>
            /\ LastLog.level = "ERROR" /\ LastLog.msg = "Exception"

C11_Witness ==
    /\ pc = "done"
    /\ calls # <<>>
    /\ ~calls[Len(calls)].ok /\ calls[Len(calls)].line = 69
    /\ Requested("high_fuse") /\ Requested("lock_bits")
    /\ IsByte(options["high_fuse"][1]) /\ IsByte(options["lock_bits"][1])

\* C12 as stated: a session for an identified device in which no call on
\* the SPI interface or the reset line fails ends with 1 as the last level
\* written to the reset line.
C12_EndsReleased ==
    (pc = "done" /\ device.found /\ NoCallFailed) => LastLevel(Len(calls)) = 1

\* C14: every transmit (enable command, fuse write, lock-bit write) is
\* issued while the last level written to the reset line is 0.
C14_TransmitWhileAsserted ==
    \A i \in DOMAIN calls :
        calls[i].op = "transmit" => LastLevel(i - 1) = 0

C14_Witness ==
    /\ Completed
    /\ \E i \in DOMAIN calls : Is(calls[i], "transmit", TableEnable)
    /\ WritesOf("high_fuse") # {}
    /\ WritesOf("lock_bits") # {}

\* C15: write transmits occur in the order low fuse, high fuse, extended
\* fuse, lock bits, and the enable command precedes all of them.
Rank(g) ==
    CASE g = "low_fuse" -> 1 [] g = "high_fuse" -> 2
      [] g = "extended_fuse" -> 3 [] g = "lock_bits" -> 4

\* rank of the group a call writes, 0 for a call that is no write transmit
RankOf(e) ==
    IF e.op = "transmit" /\ Len(e.arg) = 4
    THEN LET p == SubSeq(e.arg, 1, 3)
         IN  IF \E g \in Groups : p = TablePrefix(g)
             THEN Rank(CHOOSE g \in Groups : p = TablePrefix(g))
             ELSE 0
    ELSE 0

C15_WriteOrder ==
    \A j \in DOMAIN calls :
        RankOf(calls[j]) > 0 =>
            /\ \A i \in 1 .. (j - 1) : RankOf(calls[i]) < RankOf(calls[j])
            /\ \E i \in 1 .. (j - 1) : Is(calls[i], "transmit", TableEnable)

C15_Witness ==
    /\ Completed
    /\ \A g \in Groups : WritesOf(g) # {}

\* C16 as stated: in a session where no call on the SPI interface or the
\* reset line fails, the levels written to the reset line alternate, start
\* with 1, end with 1, and 0 is written 2 + k times, k the number of fuse
\* groups the device lists and a value is present for.
C16_ResetLevels ==
    (pc = "done" /\ device.found /\ NoCallFailed) =>
        /\ Len(Levels) >= 1
        /\ \A i \in 1 .. (Len(Levels) - 1) : Levels[i].arg # Levels[i + 1].arg
        /\ Levels[1].arg = <<1>>
        /\ Levels[Len(Levels)].arg = <<1>>
        /\ Cardinality({i \in DOMAIN Levels : Levels[i].arg = <<0>>})
             = 2 + Cardinality({g \in FuseGroups : Requested(g)})

\* C17: a transmit that fails (enable command, fuse write or lock-bit write)
\* is the last call of the session, the last level written to the reset
\* line is then 0, and run() has recorded the exception at ERROR level and
\* returned.
C17_FailedTransmitLeavesReset ==
    \A i \in DOMAIN calls :
        (calls[i].op = "transmit" /\ ~calls[i].ok) =>
            /\ i = Len(calls)
            /\ LastLevel(Len(calls)) = 0
            /\ pc = "done"
            /\ error = "Exception"
            /\ logs # <<>> /\ LastLog.level = "ERROR"

C17_Witness ==
    /\ pc = "done"
    /\ calls # <<>>
    /\ calls[Len(calls)].op = "transmit" /\ ~calls[Len(calls)].ok
    /\ calls[Len(calls)].line = 107
    /\ WritesOf("low_fuse") # {}

====
